---- MODULE Spec2Model ----
(***************************************************************************)
(* Model of litellm_telegram_manager: the gateway client                   *)
(* (src/litellm_client.py), the roster (src/csv_handler.py) and the        *)
(* /create_token command handler (src/bot.py).                             *)
(*                                                                         *)
(* Python values are modelled as tagged records: [kind |-> "None"],        *)
(* [kind |-> "raise", exc |-> ...] for a raised exception, [kind |->       *)
(* "fail", ...] for the failure dictionary {'success': False, ...},        *)
(* [kind |-> "ok", ...] for a success dictionary.  Strings that the code   *)
(* normalises are sequences of one-character strings.                      *)
(***************************************************************************)
EXTENDS Integers, Sequences, FiniteSets, TLC

\* ------------------------------------------------------------------ bounds
\* Latest clock value reached by Tick.
MaxTime == 2
\* Number of command invocations started in one behaviour of Spec.
MaxInvocations == 2
\* Number of keys of the gateway in the initial states of SpecTokens.
MaxKeys == 2
\* Largest user collection (short of the page range) in the initial states
\* of SpecPages.
MaxUsers == 6
\* Largest page_size passed to list_users in SpecPages.
MaxPageSize == 3
\* Largest team collection in the initial states of SpecTeams.
MaxTeams == 3

\* ------------------------------------------------------- program constants
\* list_users(page_size=25)
DefaultPageSize == 25
\* for page in range(1, 1000, 1)
RangeStop == 1000
\* DEFAULT_TOKEN_DURATION ('90m'), in clock units of the model
DEFAULT_TOKEN_DURATION == 2

DEFAULT_TEAM_NAME == <<"S","t","u","d","e","n","t","s","N","S","T","U">>

FallbackDomain == <<"@","n","s","t","u",".","r","u">>

\* ------------------------------------------------------------ Python values
None == [kind |-> "None"]

Raise(e) == [kind |-> "raise", exc |-> e]

Bool(b) == [kind |-> "bool", val |-> b]

Str(s) == [kind |-> "value", val |-> s]

\* `not x` for x None or a string
Falsy(x) == x = None \/ (x.kind = "value" /\ x.val = <<>>)

\* Outcome of one HTTP request: answered 2xx, answered with an error status,
\* or no answer at all (timeout, connection error).
Outcomes == {"ok", "http", "net"}

\* The exception requests raises for a failed request (raise_for_status for
\* "http", the transport for "net").
RequestException(o) == IF o = "http" THEN "HTTPError" ELSE "ConnectionError"

\* {'success': False, 'error': str(e), 'status_code': getattr(e.response, ...)}
FailureDescriptor(o) ==
    [kind |-> "fail",
     error |-> [text |-> RequestException(o), arg |-> <<>>],
     status_code |-> IF o = "http" THEN "500" ELSE "None"]

\* ------------------------------------------------------------------ strings
UpperLetters == <<"A","B","C","D","E","F","G","H","I","J","K","L","M",
                  "N","O","P","Q","R","S","T","U","V","W","X","Y","Z">>

LowerLetters == <<"a","b","c","d","e","f","g","h","i","j","k","l","m",
                  "n","o","p","q","r","s","t","u","v","w","x","y","z">>

LowerChar(c) ==
    IF \E i \in 1..26 : UpperLetters[i] = c
    THEN LowerLetters[CHOOSE i \in 1..26 : UpperLetters[i] = c]
    ELSE c

\* str.lower()
Lower(s) == [i \in 1..Len(s) |-> LowerChar(s[i])]

IsSpace(c) == c = " "

RECURSIVE LStrip(_)
LStrip(s) == IF s # <<>> /\ IsSpace(Head(s)) THEN LStrip(Tail(s)) ELSE s

RECURSIVE RStrip(_)
RStrip(s) ==
    IF s # <<>> /\ IsSpace(s[Len(s)]) THEN RStrip(SubSeq(s, 1, Len(s) - 1)) ELSE s

\* str.strip()
Strip(s) == RStrip(LStrip(s))

\* x.lower().strip()
Normalize(s) == Strip(Lower(s))

Min(a, b) == IF a < b THEN a ELSE b

\* ------------------------------------------------- gateway: /user/list pages
\* The page `page` (1-based) of the gateway's user collection.
UserListPage(us, page, page_size) ==
    SubSeq(us, (page - 1) * page_size + 1, Min(page * page_size, Len(us)))

\* The outcome of the request for page `page`: uo names the page whose
\* request fails (0 for none) and how it fails.
PageOutcome(uo, page) == IF uo.page = page THEN uo.how ELSE "ok"

RECURSIVE list_users_from(_, _, _, _, _)
list_users_from(us, page_size, uo, page, all_users) ==
    IF page >= RangeStop
    THEN [kind |-> "list", items |-> all_users]
    ELSE IF PageOutcome(uo, page) # "ok"
    THEN FailureDescriptor(PageOutcome(uo, page))
    ELSE LET users == UserListPage(us, page, page_size) IN
         IF Len(users) < page_size \/ users = <<>>
         THEN [kind |-> "list", items |-> all_users \o users]
         ELSE list_users_from(us, page_size, uo, page + 1, all_users \o users)

\* LiteLLMClient.list_users: us is the gateway's user collection, uo the
\* outcomes of the page requests.
list_users(us, page_size, uo) == list_users_from(us, page_size, uo, 1, <<>>)

\* list_users that, when a page fails, leaves the loop with the pages
\* gathered so far.
list_users_page_keep_partial(us, page_size, uo, page, all_users) ==
    IF PageOutcome(uo, page) # "ok"
    THEN [exit |-> "break", ret |-> None, all_users |-> all_users]
    ELSE LET users == UserListPage(us, page, page_size) IN
         [exit |-> IF Len(users) < page_size \/ users = <<>>
                   THEN "break" ELSE "continue",
          ret |-> None,
          all_users |-> all_users \o users]

\* list_users that tests for the last page before it extends all_users.
list_users_page_drop_short(us, page_size, uo, page, all_users) ==
    IF PageOutcome(uo, page) # "ok"
    THEN [exit |-> "return", ret |-> FailureDescriptor(PageOutcome(uo, page)),
          all_users |-> all_users]
    ELSE LET users == UserListPage(us, page, page_size) IN
         IF Len(users) < page_size \/ users = <<>>
         THEN [exit |-> "break", ret |-> None, all_users |-> all_users]
         ELSE [exit |-> "continue", ret |-> None, all_users |-> all_users \o users]

\* One iteration of the loop of list_users (lines 19-47): how it leaves the
\* iteration ("return" from the except clause, "break", or "continue" with
\* the next page), the value returned, and all_users afterwards.
list_users_page(us, page_size, uo, page, all_users) ==
    IF PageOutcome(uo, page) # "ok"
    THEN [exit |-> "return", ret |-> FailureDescriptor(PageOutcome(uo, page)),
          all_users |-> all_users]
    ELSE LET users == UserListPage(us, page, page_size) IN
         [exit |-> IF Len(users) < page_size \/ users = <<>>
                   THEN "break" ELSE "continue",
          ret |-> None,
          all_users |-> all_users \o users]

\* --------------------------------------------------------- gateway: teams
\* The three shapes the body of GET /team/list can have: a bare list,
\* {'teams': [...]} or {'data': [...]}.
TeamShapes == {"list", "teams", "data"}

\* LiteLLMClient.list_teams: ts is the gateway's team collection, shape the
\* shape of the response body, o the outcome of the request.
list_teams(ts, shape, o) ==
    IF o = "ok"
    THEN [kind |-> "ok", data |-> [shape |-> shape, items |-> ts]]
    ELSE FailureDescriptor(o)

\* `alias and alias.lower().strip() == target`
AliasMatches(team, target) ==
    team.team_alias # <<>> /\ Normalize(team.team_alias) = target

RECURSIVE LastMatch(_, _)
\* Index of the last team of ts whose alias matches target, 0 when none does.
LastMatch(ts, target) ==
    IF ts = <<>> THEN 0
    ELSE IF AliasMatches(ts[Len(ts)], target) THEN Len(ts)
    ELSE LastMatch(SubSeq(ts, 1, Len(ts) - 1), target)

RECURSIVE FirstMatch(_, _)
\* Index of the first team of ts whose alias matches target, 0 when none does.
FirstMatch(ts, target) ==
    IF ts = <<>> THEN 0
    ELSE IF AliasMatches(Head(ts), target) THEN 1
    ELSE LET r == FirstMatch(Tail(ts), target) IN IF r = 0 THEN 0 ELSE r + 1

\* LiteLLMClient.get_team_id_by_name.  A {'data': [...]} body stays a dict:
\* the loop then iterates its keys and calls .get on a str.
get_team_id_by_name(ts, shape, o, team_name) ==
    LET result == list_teams(ts, shape, o) IN
    IF result.kind # "ok" THEN None
    ELSE IF result.data.shape = "data" THEN Raise("AttributeError")
    ELSE LET teams == result.data.items
             i == FirstMatch(teams, Normalize(team_name))
         IN IF i = 0 THEN None ELSE Str(teams[i].team_id)

\* GET /team/info?team_id=...: the status code the client sees, "none" when
\* the request raised.
TeamInfoStatus(ts, team_id, o) ==
    IF o = "net" THEN "none"
    ELSE IF o = "http" THEN "500"
    ELSE IF \E i \in 1..Len(ts) : ts[i].team_id = team_id THEN "200" ELSE "404"

\* The name scan of team_exists (lines 143-164).  list_teams always returns
\* a dict: `existing_teams.get('teams') or existing_teams.get('data') or []`
\* is the body of the response, [] for a failure descriptor or an empty body.
\* A wrapped body is a dict, whose keys the loop iterates.
team_exists_by_name(ts, shape, o, team_name) ==
    LET existing_teams == list_teams(ts, shape, o) IN
    IF existing_teams.kind # "ok" THEN Bool(FALSE)
    ELSE IF existing_teams.data.shape # "list" THEN Raise("AttributeError")
    ELSE Bool(FirstMatch(existing_teams.data.items, Normalize(team_name)) # 0)

\* team_exists without the test of line 122.
team_exists_unchecked(ts, shape, po, o, team_id, team_name) ==
    IF ~Falsy(team_id) /\ TeamInfoStatus(ts, team_id.val, po) = "200"
    THEN Bool(TRUE)
    ELSE IF ~Falsy(team_name)
    THEN team_exists_by_name(ts, shape, o, team_name.val)
    ELSE Bool(FALSE)

\* The requests team_exists sends, in order: the probe by id of lines
\* 127-134 and the listing of line 146.
team_exists_requests(ts, po, team_id, team_name) ==
    IF Falsy(team_id) /\ Falsy(team_name) THEN <<>>
    ELSE (IF ~Falsy(team_id) THEN <<"/team/info">> ELSE <<>>)
         \o (IF /\ ~Falsy(team_name)
                /\ (Falsy(team_id) \/ TeamInfoStatus(ts, team_id.val, po) # "200")
             THEN <<"/team/list">> ELSE <<>>)

\* LiteLLMClient.team_exists: team_id and team_name are None or Str(..),
\* po is the outcome of the probe by id, o of the team listing.
team_exists(ts, shape, po, o, team_id, team_name) ==
    IF Falsy(team_id) /\ Falsy(team_name) THEN Raise("ValueError")
    ELSE IF ~Falsy(team_id) /\ TeamInfoStatus(ts, team_id.val, po) = "200"
    THEN Bool(TRUE)
    ELSE IF ~Falsy(team_name)
    THEN team_exists_by_name(ts, shape, o, team_name.val)
    ELSE Bool(FALSE)

\* --------------------------------------------------------- gateway: users
RECURSIVE FirstUser(_, _)
\* Index of the first record of us whose user_email matches target.
FirstUser(us, target) ==
    IF us = <<>> THEN 0
    ELSE IF Head(us).user_email # <<>> /\ Normalize(Head(us).user_email) = target
    THEN 1
    ELSE LET r == FirstUser(Tail(us), target) IN IF r = 0 THEN 0 ELSE r + 1

\* LiteLLMClient.get_user_info(email=...).  When list_users returns its
\* failure dictionary the scan iterates the dictionary's keys and calls
\* .get on a str.
get_user_info(us, uo, email) ==
    LET users == list_users(us, DefaultPageSize, uo) IN
    IF users.kind = "fail" THEN Raise("AttributeError")
    ELSE LET i == FirstUser(users.items, Normalize(email)) IN
         IF i = 0 THEN None ELSE [kind |-> "user", rec |-> users.items[i]]

\* LiteLLMClient.get_user_info(user_id=...): one request, raise_for_status
\* outside any try.
get_user_info_by_id(us, o, user_id) ==
    IF o # "ok" THEN Raise(RequestException(o))
    ELSE IF \E i \in 1..Len(us) : us[i].user_id = user_id
    THEN [kind |-> "user",
          rec |-> us[CHOOSE i \in 1..Len(us) : us[i].user_id = user_id]]
    ELSE Raise("HTTPError")

\* LiteLLMClient.user_exists
user_exists(us, uo, email) ==
    LET user_info == get_user_info(us, uo, email) IN
    IF user_info.kind = "raise" THEN user_info ELSE Bool(user_info # None)

\* LiteLLMClient.get_user_id_by_email: user_info.get('user_id') with no
\* check that user_info is not None.
get_user_id_by_email(us, uo, email) ==
    LET user_info == get_user_info(us, uo, email) IN
    IF user_info.kind = "raise" THEN user_info
    ELSE IF user_info = None THEN Raise("AttributeError")
    ELSE Str(user_info.rec.user_id)

\* create_user that goes on without a team when the team name is not found
\* ("or just warn/proceed", line 204).
create_user_request_proceed(ts, shape, o1, o2, email, team_name) ==
    IF Falsy(team_name)
    THEN [post |-> TRUE, body |-> [user_email |-> email, teams |-> <<>>]]
    ELSE LET ex == team_exists(ts, shape, "ok", o1, None, team_name) IN
         IF ex.kind = "raise" THEN [post |-> FALSE, ret |-> ex]
         ELSE IF ~ex.val
         THEN [post |-> TRUE, body |-> [user_email |-> email, teams |-> <<>>]]
         ELSE LET team_id == get_team_id_by_name(ts, shape, o2, team_name.val) IN
              IF team_id.kind = "raise" THEN [post |-> FALSE, ret |-> team_id]
              ELSE [post |-> TRUE,
                    body |-> [user_email |-> email, teams |-> <<team_id>>]]

\* LiteLLMClient.create_user up to the POST: what it returns without
\* posting, or the body it posts.  o1 is the outcome of the team listing of
\* team_exists, o2 of the listing of get_team_id_by_name.
create_user_request(ts, shape, o1, o2, email, team_name) ==
    IF Falsy(team_name)
    THEN [post |-> TRUE, body |-> [user_email |-> email, teams |-> <<>>]]
    ELSE LET ex == team_exists(ts, shape, "ok", o1, None, team_name) IN
         IF ex.kind = "raise" THEN [post |-> FALSE, ret |-> ex]
         ELSE IF ~ex.val
         THEN [post |-> FALSE,
               ret |-> [kind |-> "fail",
                        error |-> [text |-> "Team with name not found",
                                   arg |-> team_name.val],
                        status_code |-> "None"]]
         ELSE LET team_id == get_team_id_by_name(ts, shape, o2, team_name.val) IN
              IF team_id.kind = "raise" THEN [post |-> FALSE, ret |-> team_id]
              ELSE [post |-> TRUE,
                    body |-> [user_email |-> email, teams |-> <<team_id>>]]

\* The record POST /user/new stores for a request body, with a fresh id.
NewUser(body, id) == [user_email |-> body.user_email, user_id |-> id]

\* LiteLLMClient.create_user: the value returned (or the exception raised)
\* and the gateway's user collection afterwards.  po is the outcome of the
\* POST, id the user_id the gateway assigns.
create_user(ts, shape, us, o1, o2, po, email, team_name, id) ==
    LET rq == create_user_request(ts, shape, o1, o2, email, team_name) IN
    IF ~rq.post THEN [ret |-> rq.ret, users |-> us, posted |-> FALSE]
    ELSE IF po # "ok"
    THEN [ret |-> Raise(RequestException(po)), users |-> us, posted |-> TRUE]
    ELSE [ret |-> [kind |-> "ok", data |-> NewUser(rq.body, id)],
          users |-> Append(us, NewUser(rq.body, id)),
          posted |-> TRUE]

\* ---------------------------------------------------------- gateway: keys
\* A key of the gateway is [key, user_id, exp, fmt, off]: exp is the instant
\* (UTC) at which it expires and fmt how /key/info writes the `expires`
\* field: "null" (no expiry), "empty" (''), "Z" (UTC time with a Z suffix),
\* "naive" (UTC time with no zone), "offset" (local time of the zone off
\* hours east of UTC, with its +hh:00 suffix), "garbage" (no ISO timestamp).
ExpiresFormats == {"null", "empty", "Z", "naive", "offset", "garbage"}

\* The `expires` field of the body of GET /key/info for key k.
ExpiresField(k) ==
    [fmt |-> k.fmt,
     t |-> IF k.fmt = "offset" THEN k.exp + k.off ELSE k.exp,
     off |-> IF k.fmt = "offset" THEN k.off ELSE 0]

\* datetime.fromisoformat after the Z suffix was replaced.
fromisoformat(s) ==
    IF s.fmt = "naive" THEN [kind |-> "datetime", t |-> s.t, tzinfo |-> None]
    ELSE IF s.fmt = "offset"
    THEN [kind |-> "datetime", t |-> s.t, tzinfo |-> Str(s.off)]
    ELSE Raise("ValueError")

\* Lines 405-426 with `>=` for the `>` of line 422.
expires_in_future_or_now(expires_str, now_utc) ==
    IF expires_str.fmt \in {"null", "empty"} THEN TRUE
    ELSE LET s == IF expires_str.fmt = "Z"
                  THEN [fmt |-> "offset", t |-> expires_str.t, off |-> 0]
                  ELSE expires_str
             parsed == fromisoformat(s)
         IN IF parsed.kind = "raise" THEN FALSE
            ELSE LET expiry_date == IF parsed.tzinfo = None
                                    THEN [parsed EXCEPT !.tzinfo = Str(0)]
                                    ELSE parsed
                 IN expiry_date.t - expiry_date.tzinfo.val >= now_utc

\* Lines 405-426 for one key: whether the key is appended to active_tokens.
expires_in_future(expires_str, now_utc) ==
    IF expires_str.fmt \in {"null", "empty"} THEN TRUE
    ELSE LET s == IF expires_str.fmt = "Z"
                  THEN [fmt |-> "offset", t |-> expires_str.t, off |-> 0]
                  ELSE expires_str
             parsed == fromisoformat(s)
         IN IF parsed.kind = "raise" THEN FALSE
            ELSE LET expiry_date == IF parsed.tzinfo = None
                                    THEN [parsed EXCEPT !.tzinfo = Str(0)]
                                    ELSE parsed
                 IN expiry_date.t - expiry_date.tzinfo.val > now_utc

\* The keys of user_id in the gateway's key collection, in list order.
RECURSIVE KeysOf(_, _)
KeysOf(ks, user_id) ==
    IF ks = <<>> THEN <<>>
    ELSE IF Head(ks).user_id = user_id
    THEN <<Head(ks).key>> \o KeysOf(Tail(ks), user_id)
    ELSE KeysOf(Tail(ks), user_id)

\* The gateway's record of key string k.
KeyRecord(ks, k) == ks[CHOOSE i \in 1..Len(ks) : ks[i].key = k]

\* LiteLLMClient.list_user_keys
list_user_keys(ks, o, user_id) ==
    IF o # "ok" THEN FailureDescriptor(o)
    ELSE LET keys == KeysOf(ks, user_id) IN
         [kind |-> "ok", count |-> Len(keys), data |-> keys]

\* LiteLLMClient.get_key_info: raise_for_status outside any try.
get_key_info(ks, o, key) ==
    IF o # "ok" THEN Raise(RequestException(o))
    ELSE [kind |-> "ok", info |-> [expires |-> ExpiresField(KeyRecord(ks, key))]]

RECURSIVE active_tokens_scan(_, _, _, _, _)
\* The loop of get_active_tokens over all_keys from index i on: the list
\* active_tokens, or the exception that leaves the loop.  io maps a key to
\* the outcome of its /key/info request.
active_tokens_scan(ks, io, all_keys, now_utc, active_tokens) ==
    IF all_keys = <<>> THEN [kind |-> "list", items |-> active_tokens]
    ELSE LET key == Head(all_keys)
             key_info == get_key_info(ks, io[key], key)
         IN IF key_info.kind = "raise" THEN key_info
            ELSE active_tokens_scan(ks, io, Tail(all_keys), now_utc,
                   IF expires_in_future(key_info.info.expires, now_utc)
                   THEN Append(active_tokens, key) ELSE active_tokens)

\* LiteLLMClient.get_active_tokens
get_active_tokens(us, ks, uo, ko, io, now_utc, email) ==
    LET user_id == get_user_id_by_email(us, uo, email) IN
    IF user_id.kind = "raise" THEN user_id
    ELSE IF user_id = None
    THEN [kind |-> "fail",
          error |-> [text |-> "User with email not found", arg |-> email],
          status_code |-> "None"]
    ELSE LET keys_result == list_user_keys(ks, ko, user_id.val) IN
         IF keys_result.kind # "ok" THEN keys_result
         ELSE LET scan == active_tokens_scan(ks, io, keys_result.data, now_utc, <<>>) IN
              IF scan.kind = "raise" THEN scan
              ELSE [kind |-> "ok", user_id |-> user_id.val,
                    count |-> Len(scan.items), data |-> scan.items]

\* The key POST /key/generate stores: owned by user_id, expiring `duration`
\* after the request.
NewKey(key, user_id, now_utc, duration) ==
    [key |-> key, user_id |-> user_id, exp |-> now_utc + duration,
     fmt |-> "Z", off |-> 0]

\* create_token sending no user_id with the request: the key it creates
\* belongs to no user.
create_token_unowned(us, ks, uo, po, now_utc, email, duration, key) ==
    LET user_id == get_user_id_by_email(us, uo, email) IN
    IF user_id.kind = "raise" THEN [ret |-> user_id, keys |-> ks, posted |-> FALSE]
    ELSE IF po # "ok"
    THEN [ret |-> FailureDescriptor(po), keys |-> ks, posted |-> TRUE]
    ELSE [ret |-> [kind |-> "ok", data |-> NewKey(key, 0, now_utc, duration)],
          keys |-> Append(ks, NewKey(key, 0, now_utc, duration)),
          posted |-> TRUE]

\* LiteLLMClient.create_token: the value returned (or the exception raised)
\* and the gateway's key collection afterwards.  po is the outcome of the
\* POST, key the key string the gateway generates.
create_token(us, ks, uo, po, now_utc, email, duration, key) ==
    LET user_id == get_user_id_by_email(us, uo, email) IN
    IF user_id.kind = "raise" THEN [ret |-> user_id, keys |-> ks, posted |-> FALSE]
    ELSE IF po # "ok"
    THEN [ret |-> FailureDescriptor(po), keys |-> ks, posted |-> TRUE]
    ELSE [ret |-> [kind |-> "ok",
                   data |-> NewKey(key, user_id.val, now_utc, duration)],
          keys |-> Append(ks, NewKey(key, user_id.val, now_utc, duration)),
          posted |-> TRUE]

\* ------------------------------------------------------------------ roster
\* A row of the CSV file.
Row(u, e) == [telegram_username |-> u, email |-> e]

RECURSIVE load_users_from(_, _)
\* CSVHandler._load_users: the cache built from the rows, a set of
\* <<username, email>> pairs in which a later row replaces an earlier one.
load_users_from(rows, cache) ==
    IF rows = <<>> THEN cache
    ELSE LET telegram_username == Strip(Head(rows).telegram_username)
             em == Strip(Head(rows).email)
         IN load_users_from(Tail(rows),
              IF telegram_username # <<>> /\ em # <<>>
              THEN {c \in cache : c[1] # telegram_username}
                     \cup {<<telegram_username, em>>}
              ELSE cache)

load_users(file) == load_users_from(file, {})

\* `if not telegram_username.startswith('@')`
WithAt(telegram_username) ==
    IF telegram_username # <<>> /\ Head(telegram_username) = "@"
    THEN telegram_username ELSE <<"@">> \o telegram_username

\* CSVHandler.is_authorized
csv_is_authorized(file, telegram_username) ==
    \E c \in load_users(file) : c[1] = WithAt(telegram_username)

\* CSVHandler.get_email
get_email(file, telegram_username) ==
    LET cache == load_users(file) IN
    IF \E c \in cache : c[1] = WithAt(telegram_username)
    THEN Str((CHOOSE c \in cache : c[1] = WithAt(telegram_username))[2])
    ELSE None

\* The file maps the identity to an email: it has a row with that username
\* and an email, spaces around either aside.
InRoster(file, identity) ==
    \E i \in 1..Len(file) :
        /\ Strip(file[i].telegram_username) = identity
        /\ Strip(file[i].email) # <<>>

\* The identity a query names: the handle with its "@".
Identity(telegram_username) ==
    IF Head(telegram_username) = "@"
    THEN telegram_username ELSE <<"@">> \o telegram_username

RECURSIVE LastRow(_, _)
\* Index of the last row of the file that maps the identity, 0 when none.
LastRow(file, identity) ==
    IF file = <<>> THEN 0
    ELSE IF /\ Strip(file[Len(file)].telegram_username) = identity
            /\ Strip(file[Len(file)].email) # <<>>
    THEN Len(file)
    ELSE LastRow(SubSeq(file, 1, Len(file) - 1), identity)

\* The file maps the identity to this email.
MapsTo(file, identity, email) ==
    /\ InRoster(file, identity)
    /\ Strip(file[LastRow(file, identity)].email) = email

\* CSVHandler.is_authorized that answers from the cache it has.
csv_is_authorized_stale(cache, file, telegram_username) ==
    [users_cache |-> cache,
     ret |-> \E c \in cache : c[1] = WithAt(telegram_username)]

\* A call of CSVHandler.is_authorized on a handler whose cache is `cache`:
\* the cache it leaves and the value it returns.
csv_is_authorized_call(cache, file, telegram_username) ==
    [users_cache |-> load_users(file),
     ret |-> csv_is_authorized(file, telegram_username)]

\* A call of CSVHandler.get_email.
csv_get_email_call(cache, file, telegram_username) ==
    [users_cache |-> load_users(file),
     ret |-> get_email(file, telegram_username)]

\* ------------------------------------------------------------------- state
VARIABLES
    teams,        \* gateway: the team collection, in list order
    teamsShape,   \* gateway: the shape of the body of GET /team/list
    users,        \* gateway: the user collection, in list order
    keys,         \* gateway: the key collection, in list order
    nextId,       \* gateway: the next user id or key string it hands out
    now,          \* the UTC clock
    roster,       \* the rows of the CSV file
    users_cache,  \* CSVHandler._users_cache
    inv,          \* the command invocations: position and local variables
    clean,        \* history: so far every request was answered 2xx, every
                  \* client operation succeeded and no two invocations overlapped
    call          \* the last direct call of a client operation and its result

vars == <<teams, teamsShape, users, keys, nextId, now, roster, users_cache,
          inv, clean, call>>

gateway == <<teams, teamsShape, users, keys, nextId>>

\* One command invocation per process.
Procs == 1..MaxInvocations

\* Telegram usernames of the senders; <<>> is a sender with no username.
Senders == {<<>>, <<"a">>, <<"b">>}

EmailA == <<"a","@","x">>

\* Contents the roster file can have.
RosterFiles ==
    { <<Row(<<"@","a">>, EmailA)>>,
      <<Row(<<"@","a">>, <<" ">> \o EmailA), Row(<<"@","b">>, <<"A","@","x">>)>>,
      <<>> }

DefaultTeam == [team_alias |-> <<"s","t","u","d","e","n","t","s","N","S","T","U"," ">>,
                team_id |-> <<"t","1">>]

OtherTeam == [team_alias |-> <<"o">>, team_id |-> <<"t","2">>]

\* Team collections of the gateway: the default team provisioned or not.
TeamCollections == { <<OtherTeam, DefaultTeam>>, <<OtherTeam>> }

\* The first page of /user/list has outcome o (with the default page size
\* and the user collections of this model there is no second page).
FirstPage(o) == [page |-> IF o = "ok" THEN 0 ELSE 1, how |-> o]

\* Outcomes of the /key/info requests of one scan: all answered, or one key's
\* request failing (the scan does not go past the first failure).
InfoOutcomes(keyset) ==
    {[k \in keyset |-> "ok"]} \cup
    {[k \in keyset |-> IF k = f THEN o ELSE "ok"] :
        f \in keyset, o \in Outcomes \ {"ok"}}

KeyStrings(ks) == {ks[i].key : i \in 1..Len(ks)}

\* The local state of an invocation.  History fields: in_roster (the file
\* mapped the sender's identity when the guard read it), mapped (the file
\* mapped the identity to the handler's email when the handler read it),
\* requested (the invocation has sent a request to the gateway), dup_create
\* (it posted /user/new while a record with its normalized email existed).
Idle ==
    [pc |-> "idle", running |-> FALSE, username |-> <<>>, email |-> <<>>,
     user_creation |-> "none", count |-> -1, generated |-> 0,
     result |-> "none", key |-> 0, error |-> None,
     in_roster |-> FALSE, mapped |-> FALSE, requested |-> FALSE,
     dup_create |-> FALSE]

Init ==
    /\ teams \in TeamCollections
    /\ teamsShape \in TeamShapes
    /\ users = <<>>
    /\ keys = <<>>
    /\ nextId = 10
    /\ now = 0
    /\ roster \in RosterFiles
    /\ users_cache = load_users(roster)
    /\ inv = [p \in Procs |-> Idle]
    /\ clean = TRUE
    /\ call = [op |-> "none"]

\* The handlers run on one event loop: a handler that has not reached an
\* await keeps the loop, and no other handler runs meanwhile.
LoopFree(p) == \A q \in Procs \ {p} : ~inv[q].running

Unfinished(q) == inv[q].pc \notin {"idle", "done", "returned"}

\* The invocation ends because an exception left the handler.
Raised(p) ==
    [inv EXCEPT ![p] = [@ EXCEPT !.pc = "done", !.running = FALSE,
                                 !.result = "raised"]]

\* A wrapper that calls the handler whatever the roster answers.
Start_unguarded(p) ==
    /\ inv[p].pc = "idle"
    /\ \A q \in Procs : q < p => inv[q].pc # "idle"
    /\ LoopFree(p)
    /\ \E u \in Senders :
         LET r == csv_is_authorized_call(users_cache, roster, <<"@">> \o u) IN
         /\ users_cache' = IF u = <<>> THEN users_cache ELSE r.users_cache
         /\ inv' = [inv EXCEPT ![p] = [@ EXCEPT !.pc = "handler", !.username = u,
                                                  !.running = TRUE,
                                                  !.in_roster = InRoster(roster, <<"@">> \o u)]]
    /\ clean' = (clean /\ ~(inv'[p].pc = "handler"
                              /\ \E q \in Procs \ {p} : Unfinished(q)))
    /\ UNCHANGED <<gateway, now, roster, call>>

\* The wrapper of is_authorized (bot.py 38-56) for a new /create_token update.
Start(p) ==
    /\ inv[p].pc = "idle"
    /\ \A q \in Procs : q < p => inv[q].pc # "idle"
    /\ LoopFree(p)
    /\ \E u \in Senders :
         LET r == csv_is_authorized_call(users_cache, roster, <<"@">> \o u) IN
         /\ users_cache' = IF u = <<>> THEN users_cache ELSE r.users_cache
         /\ IF u = <<>> \/ ~r.ret
            THEN inv' = [inv EXCEPT ![p] = [@ EXCEPT !.pc = "done", !.username = u,
                                                     !.result = "rejected",
                                                     !.in_roster = InRoster(roster, <<"@">> \o u)]]
            ELSE inv' = [inv EXCEPT ![p] = [@ EXCEPT !.pc = "handler", !.username = u,
                                                     !.running = TRUE,
                                                     !.in_roster = InRoster(roster, <<"@">> \o u)]]
    /\ clean' = (clean /\ ~(inv'[p].pc = "handler"
                              /\ \E q \in Procs \ {p} : Unfinished(q)))
    /\ UNCHANGED <<gateway, now, roster, call>>

\* create_token_command, lines 103-110: the email of the sender and the
\* user lookup.  When the user exists the handler goes on to line 116
\* without an await.
Handler(p) ==
    /\ inv[p].pc = "handler"
    /\ LoopFree(p)
    /\ \E o \in Outcomes :
         LET em == csv_get_email_call(users_cache, roster,
                                      <<"@">> \o inv[p].username).ret
             email == IF em # None THEN em.val
                      ELSE inv[p].username \o FallbackDomain
             exists == user_exists(users, FirstPage(o), email)
             mapped == MapsTo(roster, <<"@">> \o inv[p].username, email)
         IN /\ inv' = IF exists.kind = "raise"
                      THEN [Raised(p) EXCEPT ![p].email = email,
                                             ![p].mapped = mapped,
                                             ![p].requested = TRUE]
                      ELSE IF exists.val
                      THEN [inv EXCEPT ![p] = [@ EXCEPT !.pc = "active_tokens",
                                                        !.email = email,
                                                        !.mapped = mapped,
                                                        !.requested = TRUE]]
                      ELSE [inv EXCEPT ![p] = [@ EXCEPT !.pc = "create_user",
                                                        !.email = email,
                                                        !.mapped = mapped,
                                                        !.requested = TRUE,
                                                        !.running = FALSE]]
            /\ clean' = (clean /\ o = "ok")
    /\ users_cache' = load_users(roster)
    /\ UNCHANGED <<gateway, now, roster, call>>

\* Lines 112-114: create_user under the default team; the value it returns
\* is not read.
CreateUser(p) ==
    /\ inv[p].pc = "create_user"
    /\ LoopFree(p)
    /\ \E o1 \in Outcomes, o2 \in Outcomes, po \in Outcomes :
         LET r == create_user(teams, teamsShape, users, o1, o2, po,
                              inv[p].email, Str(DEFAULT_TEAM_NAME), nextId)
             dup == r.posted /\ FirstUser(users, Normalize(inv[p].email)) # 0
         IN /\ users' = r.users
            /\ nextId' = IF r.users # users THEN nextId + 1 ELSE nextId
            /\ inv' = IF r.ret.kind = "raise"
                      THEN [Raised(p) EXCEPT ![p].user_creation = "raise",
                                             ![p].dup_create = dup]
                      ELSE [inv EXCEPT ![p] = [@ EXCEPT !.pc = "active_tokens",
                                                        !.running = FALSE,
                                                        !.user_creation = r.ret.kind,
                                                        !.dup_create = dup]]
            /\ clean' = (clean /\ r.ret.kind = "ok" /\ o2 = "ok")
    /\ UNCHANGED <<teams, teamsShape, keys, now, roster, users_cache, call>>

\* Lines 116-122: get_active_tokens and the test `count > 1`.  A failure
\* dictionary has no 'count': None > 1 raises TypeError.
ActiveTokens(p) ==
    /\ inv[p].pc = "active_tokens"
    /\ LoopFree(p)
    /\ \E uo \in Outcomes, ko \in Outcomes, io \in InfoOutcomes(KeyStrings(keys)) :
         LET active_tokens == get_active_tokens(users, keys, FirstPage(uo), ko, io,
                                                now, inv[p].email)
         IN /\ inv' = IF active_tokens.kind # "ok"
                      THEN Raised(p)
                      ELSE IF active_tokens.count > 1
                      THEN [inv EXCEPT ![p] = [@ EXCEPT !.pc = "done",
                                                        !.running = FALSE,
                                                        !.count = active_tokens.count,
                                                        !.result = "already"]]
                      ELSE [inv EXCEPT ![p] = [@ EXCEPT !.pc = "create_token",
                                                        !.running = FALSE,
                                                        !.count = active_tokens.count]]
            /\ clean' = (clean /\ active_tokens.kind = "ok")
    /\ UNCHANGED <<gateway, now, roster, users_cache, call>>

\* Lines 123-153: create_token and the reply built from its result.
CreateToken(p) ==
    /\ inv[p].pc = "create_token"
    /\ LoopFree(p)
    /\ \E uo \in Outcomes, po \in Outcomes :
         LET result == create_token(users, keys, FirstPage(uo), po, now,
                                    inv[p].email, DEFAULT_TOKEN_DURATION, nextId)
             posted == IF result.posted THEN 1 ELSE 0
         IN /\ keys' = result.keys
            /\ nextId' = IF result.keys # keys THEN nextId + 1 ELSE nextId
            /\ inv' = IF result.ret.kind = "raise"
                      THEN [Raised(p) EXCEPT ![p].generated = posted]
                      ELSE IF result.ret.kind = "ok"
                      THEN [inv EXCEPT ![p] = [@ EXCEPT !.pc = "done",
                                                        !.generated = posted,
                                                        !.result = "issued",
                                                        !.key = result.ret.data.key]]
                      ELSE [inv EXCEPT ![p] = [@ EXCEPT !.pc = "done",
                                                        !.generated = posted,
                                                        !.result = "failed",
                                                        !.error = result.ret]]
            /\ clean' = (clean /\ result.ret.kind = "ok")
    /\ UNCHANGED <<teams, teamsShape, users, now, roster, users_cache, call>>

\* The handler has returned: its local variables are gone.
Return(p) ==
    /\ inv[p].pc = "done"
    /\ inv' = [inv EXCEPT ![p] = [Idle EXCEPT !.pc = "returned"]]
    /\ UNCHANGED <<gateway, now, roster, users_cache, clean, call>>

\* Time passes.  The client's calls block the event loop and only line 397
\* reads the clock, so time passing inside a handler's run between two
\* awaits is time passing before that run.
Tick ==
    /\ now < MaxTime
    /\ \A q \in Procs : ~inv[q].running
    /\ now' = now + 1
    /\ UNCHANGED <<gateway, roster, users_cache, inv, clean, call>>

Next ==
    \/ \E p \in Procs : Start(p)
    \/ \E p \in Procs : Handler(p)
    \/ \E p \in Procs : CreateUser(p)
    \/ \E p \in Procs : ActiveTokens(p)
    \/ \E p \in Procs : CreateToken(p)
    \/ \E p \in Procs : Return(p)
    \/ Tick

Spec == Init /\ [][Next]_vars

\* The race of two invocations for one identity: the gateway already has the
\* user, who has no key; only the sender "a" is on the roster.
ExistingUser == [user_email |-> <<"A","@","x"," ">>, user_id |-> 3]

InitRace ==
    /\ teams = <<OtherTeam, DefaultTeam>>
    /\ teamsShape = "list"
    /\ users = <<ExistingUser>>
    /\ keys = <<>>
    /\ nextId = 10
    /\ now = 0
    /\ roster = <<Row(<<"@","a">>, EmailA)>>
    /\ users_cache = load_users(roster)
    /\ inv = [p \in Procs |-> Idle]
    /\ clean = TRUE
    /\ call = [op |-> "none"]

NextRace ==
    \/ \E p \in Procs : Start(p)
    \/ \E p \in Procs : Handler(p)
    \/ \E p \in Procs : ActiveTokens(p)
    \/ \E p \in Procs : CreateToken(p)
    \/ \E p \in Procs : Return(p)
    \/ Tick

SpecRace == InitRace /\ [][NextRace]_vars

\* ----------------------------------------------- properties of the workflow
\* What the gateway holds, read from its own records (not through the client).
KeyIsActive(k, t) ==
    \/ k.fmt \in {"null", "empty"}
    \/ k.fmt \in {"Z", "naive", "offset"} /\ k.exp > t

UserIdsOf(email) ==
    {users[i].user_id : i \in {j \in 1..Len(users) :
        Normalize(users[j].user_email) = Normalize(email)}}

TokensOf(email) ==
    {keys[i].key : i \in {j \in 1..Len(keys) : keys[j].user_id \in UserIdsOf(email)}}

ActiveTokensOf(email) ==
    {keys[i].key : i \in {j \in 1..Len(keys) :
        keys[j].user_id \in UserIdsOf(email) /\ KeyIsActive(keys[j], now)}}

Quiescent == \A q \in Procs : ~Unfinished(q)

\* C1: an invocation whose step 3 found one or more active tokens ends
\* "already provisioned": it issued no key-generation call and returns no key.
C1_ActiveTokenMeansAlreadyProvisioned ==
    \A p \in Procs :
        (inv[p].pc = "done" /\ inv[p].count >= 1)
            => (inv[p].result = "already" /\ inv[p].generated = 0 /\ inv[p].key = 0)

\* C2: after sequential invocations with no failure and no key expired, the
\* identity of a finished invocation holds exactly one active token.
C2_ExactlyOneActiveToken ==
    \A p \in Procs :
        (/\ clean
         /\ Quiescent
         /\ inv[p].pc = "done"
         /\ inv[p].result \in {"issued", "already"}
         /\ \A i \in 1..Len(keys) : KeyIsActive(keys[i], now))
            => Cardinality(ActiveTokensOf(inv[p].email)) = 1

\* C3: once user creation has failed at step 2 the invocation has ended with
\* result "failed" carrying the error, and has issued no key-generation call.
C3_UserCreationFailureEndsFailed ==
    \A p \in Procs :
        inv[p].user_creation \in {"fail", "raise"}
            => (/\ inv[p].pc = "done"
                /\ inv[p].result = "failed"
                /\ inv[p].error # None
                /\ inv[p].generated = 0)

\* C4: two invocations for one identity that both found no active token at
\* step 3 and both ended "issued" hold two distinct keys, both of them keys
\* of that identity in the gateway.
C4_RaceIssuesTwoTokens ==
    \A p \in Procs, q \in Procs :
        (/\ p # q
         /\ inv[p].pc = "done" /\ inv[q].pc = "done"
         /\ inv[p].result = "issued" /\ inv[q].result = "issued"
         /\ inv[p].count = 0 /\ inv[q].count = 0
         /\ Normalize(inv[p].email) = Normalize(inv[q].email))
            => (/\ inv[p].key # inv[q].key
                /\ {inv[p].key, inv[q].key} \subseteq TokensOf(inv[p].email))

\* C4, the race itself: both invocations saw no active token and both
\* issued, and the two keys are active at the same time.
C4_RaceWitness ==
    \E p \in Procs, q \in Procs :
        /\ p # q
        /\ inv[p].pc = "done" /\ inv[q].pc = "done"
        /\ inv[p].result = "issued" /\ inv[q].result = "issued"
        /\ inv[p].count = 0 /\ inv[q].count = 0
        /\ inv[p].email = inv[q].email
        /\ inv[p].key # inv[q].key
        /\ {inv[p].key, inv[q].key} \subseteq ActiveTokensOf(inv[p].email)
        /\ Cardinality(ActiveTokensOf(inv[p].email)) = 2

\* C5: an invocation that passed the guard ends with one of the three
\* workflow results.
C5_EndsWithWorkflowResult ==
    \A p \in Procs :
        (inv[p].pc = "done" /\ inv[p].result # "rejected")
            => inv[p].result \in {"issued", "already", "failed"}

\* ------------------------------------------- direct calls: keys and tokens
\* SpecTokens calls a key operation of the client directly, once, on a
\* gateway whose user holds up to MaxKeys keys with every form of `expires`.
KeyAttrs ==
    {[fmt |-> f, exp |-> 0, off |-> 0] : f \in {"null", "empty", "garbage"}}
    \cup {[fmt |-> f, exp |-> e, off |-> 0] : f \in {"Z", "naive"}, e \in 0..MaxTime}
    \cup {[fmt |-> "offset", exp |-> e, off |-> z] : e \in 0..MaxTime, z \in {-1, 1}}

\* The forms that occur together in one collection.
MixedAttrs == {a \in KeyAttrs : a.fmt \in {"null", "garbage", "Z"}}

KeysWith(a, n) ==
    [i \in 1..n |-> [key |-> i, user_id |-> ExistingUser.user_id,
                     exp |-> a[i].exp, fmt |-> a[i].fmt, off |-> a[i].off]]

\* Every form of `expires` on a single key, and the collections of up to
\* MaxKeys keys of the mixed forms.
KeyCollections ==
    {KeysWith(a, 1) : a \in [1..1 -> KeyAttrs]}
    \cup UNION {{KeysWith(a, n) : a \in [1..n -> MixedAttrs]} : n \in 0..MaxKeys}

\* The emails the calls ask about: one of the existing user, one of nobody.
QueryEmails == {EmailA, <<"b","@","x">>}

\* The requests of one get_active_tokens call: all answered, or exactly one
\* of them failing.
ScanOutcomes(keyset) ==
    {[uo |-> "ok", ko |-> "ok", io |-> [k \in keyset |-> "ok"]]}
    \cup {[uo |-> o, ko |-> "ok", io |-> [k \in keyset |-> "ok"]] :
            o \in Outcomes \ {"ok"}}
    \cup {[uo |-> "ok", ko |-> o, io |-> [k \in keyset |-> "ok"]] :
            o \in Outcomes \ {"ok"}}
    \cup {[uo |-> "ok", ko |-> "ok", io |-> io] :
            io \in InfoOutcomes(keyset) \ {[k \in keyset |-> "ok"]}}

InitTokens ==
    /\ teams = <<OtherTeam, DefaultTeam>>
    /\ teamsShape = "list"
    /\ users = <<ExistingUser>>
    /\ keys \in KeyCollections
    /\ nextId = 10
    /\ now \in 0..MaxTime
    /\ roster = <<>>
    /\ users_cache = load_users(roster)
    /\ inv = [p \in Procs |-> Idle]
    /\ clean = TRUE
    /\ call = [op |-> "none"]

CallGetActiveTokens ==
    /\ call.op = "none"
    /\ \E email \in QueryEmails, so \in ScanOutcomes(KeyStrings(keys)) :
         call' = [op |-> "get_active_tokens", email |-> email, uo |-> so.uo,
                  ko |-> so.ko, io |-> so.io,
                  ret |-> get_active_tokens(users, keys, FirstPage(so.uo), so.ko,
                                            so.io, now, email),
                  ok_kind |-> get_active_tokens(users, keys, FirstPage("ok"), "ok",
                                [k \in KeyStrings(keys) |-> "ok"], now, email).kind]
    /\ UNCHANGED <<gateway, now, roster, users_cache, inv, clean>>

CallGetUserIdByEmail ==
    /\ call.op = "none"
    /\ \E email \in QueryEmails, uo \in Outcomes :
         call' = [op |-> "get_user_id_by_email", email |-> email, uo |-> uo,
                  ret |-> get_user_id_by_email(users, FirstPage(uo), email),
                  ok_kind |-> get_user_id_by_email(users, FirstPage("ok"), email).kind]
    /\ UNCHANGED <<gateway, now, roster, users_cache, inv, clean>>

CallGetKeyInfo ==
    /\ call.op = "none"
    /\ \E key \in KeyStrings(keys), o \in Outcomes :
         call' = [op |-> "get_key_info", key |-> key, o |-> o,
                  ret |-> get_key_info(keys, o, key),
                  ok_kind |-> get_key_info(keys, "ok", key).kind]
    /\ UNCHANGED <<gateway, now, roster, users_cache, inv, clean>>

CallListUserKeys ==
    /\ call.op = "none"
    /\ \E user_id \in {ExistingUser.user_id, 4}, o \in Outcomes :
         call' = [op |-> "list_user_keys", user_id |-> user_id, o |-> o,
                  ret |-> list_user_keys(keys, o, user_id),
                  ok_kind |-> list_user_keys(keys, "ok", user_id).kind]
    /\ UNCHANGED <<gateway, now, roster, users_cache, inv, clean>>

NextTokens ==
    \/ CallGetActiveTokens
    \/ CallGetUserIdByEmail
    \/ CallGetKeyInfo
    \/ CallListUserKeys

SpecTokens == InitTokens /\ [][NextTokens]_vars

\* ------------------------------------- properties of get_active_tokens
\* The keys of the user of `email` that the gateway's records say are
\* active at time t and whose /key/info request io answers, in list order.
ActiveAndAnswered(email, io, t) ==
    SelectSeq(keys, LAMBDA k : /\ k.user_id \in UserIdsOf(email)
                               /\ io[k.key] = "ok"
                               /\ KeyIsActive(k, t))

KeyStringsOf(ks) == [i \in 1..Len(ks) |-> ks[i].key]

AllAnswered == [k \in KeyStrings(keys) |-> "ok"]

\* C7: when the user is found and the key list is fetched, get_active_tokens
\* returns success with the active keys among those whose detail fetch
\* succeeded and whose expiry parses, and their count, whichever detail
\* fetch fails.
C7_FailedKeySkipped ==
    (/\ call.op = "get_active_tokens"
     /\ call.uo = "ok" /\ call.ko = "ok"
     /\ UserIdsOf(call.email) # {})
        => (/\ call.ret.kind = "ok"
            /\ call.ret.data = KeyStringsOf(ActiveAndAnswered(call.email, call.io, now))
            /\ call.ret.count = Len(call.ret.data))

\* C9: for an email with no user record get_user_id_by_email returns None
\* and get_active_tokens returns the failure "User with email ... not found".
C9_AbsentUserSignalledByNone ==
    /\ (/\ call.op = "get_user_id_by_email"
        /\ call.uo = "ok"
        /\ UserIdsOf(call.email) = {})
           => call.ret.kind = "None"
    /\ (/\ call.op = "get_active_tokens"
        /\ call.uo = "ok"
        /\ UserIdsOf(call.email) = {})
           => (/\ call.ret.kind = "fail"
               /\ call.ret.error.text = "User with email not found"
               /\ call.ret.error.arg = call.email)

\* C10: a successful get_active_tokens returns exactly the keys of the user
\* whose expiry is absent or strictly later than the clock at the call, in
\* list order, and count is their number.
C10_ActiveIffAbsentOrLater ==
    (call.op = "get_active_tokens" /\ call.ret.kind = "ok")
        => (/\ call.ret.data = KeyStringsOf(ActiveAndAnswered(call.email, AllAnswered, now))
            /\ call.ret.count = Len(call.ret.data)
            /\ \A i \in 1..Len(keys) :
                 (keys[i].fmt \in {"Z", "naive", "offset"} /\ keys[i].exp <= now)
                    => \A j \in 1..Len(call.ret.data) : call.ret.data[j] # keys[i].key)

\* C10: a successful scan that drops a key expiring exactly now and keeps a
\* key with no expiry.
C10_BoundaryWitness ==
    /\ call.op = "get_active_tokens"
    /\ call.ret.kind = "ok"
    /\ call.ret.count = 1
    /\ \E i \in 1..Len(keys), j \in 1..Len(keys) :
         /\ keys[i].fmt = "Z" /\ keys[i].exp = now
         /\ keys[j].fmt = "null"
         /\ call.ret.data = <<keys[j].key>>

\* ------------------------------------------ direct calls: every operation
\* SpecClient calls one operation of the client directly, once, with every
\* outcome of its requests.  ok_kind is the kind of value the same call
\* gives when every request is answered.
MissingTeamName == <<"n","o"," ","t","e","a","m">>

\* The default team's name in another case, with spaces around it.
DefaultTeamNameVariant ==
    <<" ","s","t","u","d","e","n","t","s","n","s","t","u"," ">>

BlankTeamName == <<" ">>

TeamNames ==
    {DEFAULT_TEAM_NAME, DefaultTeamNameVariant, MissingTeamName, BlankTeamName}

InitClient ==
    /\ teams \in TeamCollections
    /\ teamsShape \in TeamShapes
    /\ users \in {<<>>, <<ExistingUser>>}
    /\ keys \in {<<>>, KeysWith(<<[fmt |-> "Z", exp |-> 1, off |-> 0]>>, 1)}
    /\ nextId = 10
    /\ now = 0
    /\ roster = <<>>
    /\ users_cache = load_users(roster)
    /\ inv = [p \in Procs |-> Idle]
    /\ clean = TRUE
    /\ call = [op |-> "none"]

CallListUsers ==
    /\ call.op = "none"
    /\ \E uo \in Outcomes :
         call' = [op |-> "list_users", uo |-> uo,
                  ret |-> list_users(users, DefaultPageSize, FirstPage(uo)),
                  ok_kind |-> list_users(users, DefaultPageSize, FirstPage("ok")).kind]
    /\ UNCHANGED <<gateway, now, roster, users_cache, inv, clean>>

CallListTeams ==
    /\ call.op = "none"
    /\ \E o \in Outcomes :
         call' = [op |-> "list_teams", o |-> o,
                  ret |-> list_teams(teams, teamsShape, o),
                  ok_kind |-> list_teams(teams, teamsShape, "ok").kind]
    /\ UNCHANGED <<gateway, now, roster, users_cache, inv, clean>>

CallGetTeamIdByName ==
    /\ call.op = "none"
    /\ \E team_name \in TeamNames, o \in Outcomes :
         call' = [op |-> "get_team_id_by_name", team_name |-> team_name, o |-> o,
                  ret |-> get_team_id_by_name(teams, teamsShape, o, team_name),
                  ok_kind |-> get_team_id_by_name(teams, teamsShape, "ok", team_name).kind]
    /\ UNCHANGED <<gateway, now, roster, users_cache, inv, clean>>

CallTeamExists ==
    /\ call.op = "none"
    /\ \E team_id \in {None, Str(<<>>), Str(DefaultTeam.team_id), Str(<<"t","9">>)},
          team_name \in {None, Str(<<>>)} \cup {Str(n) : n \in TeamNames},
          po \in Outcomes, o \in Outcomes :
         call' = [op |-> "team_exists", team_id |-> team_id, team_name |-> team_name,
                  po |-> po, o |-> o,
                  requests |-> team_exists_requests(teams, po, team_id, team_name),
                  ret |-> team_exists(teams, teamsShape, po, o, team_id, team_name),
                  ok_kind |-> team_exists(teams, teamsShape, "ok", "ok", team_id,
                                          team_name).kind]
    /\ UNCHANGED <<gateway, now, roster, users_cache, inv, clean>>

CallGetUserInfo ==
    /\ call.op = "none"
    /\ \E email \in QueryEmails, uo \in Outcomes :
         call' = [op |-> "get_user_info", email |-> email, uo |-> uo,
                  ret |-> get_user_info(users, FirstPage(uo), email),
                  ok_kind |-> get_user_info(users, FirstPage("ok"), email).kind]
    /\ UNCHANGED <<gateway, now, roster, users_cache, inv, clean>>

CallGetUserInfoById ==
    /\ call.op = "none"
    /\ \E user_id \in {ExistingUser.user_id, 4}, o \in Outcomes :
         call' = [op |-> "get_user_info", user_id |-> user_id, uo |-> o,
                  ret |-> get_user_info_by_id(users, o, user_id),
                  ok_kind |-> get_user_info_by_id(users, "ok", user_id).kind]
    /\ UNCHANGED <<gateway, now, roster, users_cache, inv, clean>>

CallUserExists ==
    /\ call.op = "none"
    /\ \E email \in QueryEmails, uo \in Outcomes :
         call' = [op |-> "user_exists", email |-> email, uo |-> uo,
                  ret |-> user_exists(users, FirstPage(uo), email),
                  ok_kind |-> user_exists(users, FirstPage("ok"), email).kind]
    /\ UNCHANGED <<gateway, now, roster, users_cache, inv, clean>>

CallCreateUser ==
    /\ call.op = "none"
    /\ \E email \in QueryEmails, team_name \in {None} \cup {Str(n) : n \in TeamNames},
          o1 \in Outcomes, o2 \in Outcomes, po \in Outcomes :
         LET r == create_user(teams, teamsShape, users, o1, o2, po, email,
                              team_name, nextId)
         IN /\ call' = [op |-> "create_user", email |-> email,
                        team_name |-> team_name, o1 |-> o1, o2 |-> o2, po |-> po,
                        ret |-> r.ret, posted |-> r.posted, users_before |-> users,
                        ok_kind |-> create_user(teams, teamsShape, users, "ok", "ok",
                                      "ok", email, team_name, nextId).ret.kind]
            /\ users' = r.users
            /\ nextId' = IF r.users # users THEN nextId + 1 ELSE nextId
    /\ UNCHANGED <<teams, teamsShape, keys, now, roster, users_cache, inv, clean>>

CallCreateToken ==
    /\ call.op = "none"
    /\ \E email \in QueryEmails, uo \in Outcomes, po \in Outcomes :
         LET r == create_token(users, keys, FirstPage(uo), po, now, email,
                               DEFAULT_TOKEN_DURATION, nextId)
         IN /\ call' = [op |-> "create_token", email |-> email, uo |-> uo, po |-> po,
                        ret |-> r.ret, posted |-> r.posted,
                        ok_kind |-> create_token(users, keys, FirstPage("ok"), "ok",
                                      now, email, DEFAULT_TOKEN_DURATION,
                                      nextId).ret.kind]
            /\ keys' = r.keys
            /\ nextId' = IF r.keys # keys THEN nextId + 1 ELSE nextId
    /\ UNCHANGED <<teams, teamsShape, users, now, roster, users_cache, inv, clean>>

NextClient ==
    \/ CallListUsers
    \/ CallListTeams
    \/ CallGetTeamIdByName
    \/ CallTeamExists
    \/ CallGetUserInfo
    \/ CallGetUserInfoById
    \/ CallUserExists
    \/ CallCreateUser
    \/ CallCreateToken
    \/ CallGetUserIdByEmail
    \/ CallGetKeyInfo
    \/ CallListUserKeys
    \/ CallGetActiveTokens

SpecClient == InitClient /\ [][NextClient]_vars

\* The network operations of the client.
NetworkOps ==
    {"list_users", "list_teams", "get_user_info", "user_exists", "create_user",
     "create_token", "get_key_info", "list_user_keys", "get_active_tokens"}

\* C6: a network operation that returns a value when all its requests are
\* answered also returns a value, and raises nothing, when one of its
\* requests fails.
C6_NoOperationRaisesOnRequestFailure ==
    (call.op \in NetworkOps /\ call.ok_kind # "raise") => call.ret.kind # "raise"

\* What the team existence check of the create_user call answered.
TeamCheck == team_exists(teams, teamsShape, "ok", call.o1, None, call.team_name)

\* The team existence check of create_user answered False.
TeamCheckFailed ==
    /\ call.op = "create_user"
    /\ call.team_name # None
    /\ TeamCheck = Bool(FALSE)

\* create_user was given a team name and the existence check did not answer
\* True: it answered False or it raised.
TeamCheckNotPassed ==
    /\ call.op = "create_user"
    /\ call.team_name # None
    /\ TeamCheck # Bool(TRUE)

\* C8: create_user with a team name that does not pass the existence check
\* returns the failure naming that team, posts nothing and leaves the
\* gateway's users as they were.
C8_MissingTeamNoMutation ==
    TeamCheckNotPassed
        => (/\ call.ret.kind = "fail"
            /\ call.ret.error.text = "Team with name not found"
            /\ call.ret.error.arg = call.team_name.val
            /\ ~call.posted
            /\ users = call.users_before)

\* C8, where the failure is returned only when the check answers False:
\* whenever the check does not answer True nothing is posted and the
\* gateway's users stay as they were.
C8_MissingTeamNoMutationAnswered ==
    /\ TeamCheckFailed
          => (/\ call.ret.kind = "fail"
              /\ call.ret.error.text = "Team with name not found"
              /\ call.ret.error.arg = call.team_name.val)
    /\ TeamCheckNotPassed => (~call.posted /\ users = call.users_before)

\* C8: a call for a team that is not in the gateway's collection, whose
\* listing was answered, refused without a request.
C8_MissingTeamWitness ==
    /\ TeamCheckFailed
    /\ call.o1 = "ok"
    /\ call.team_name = Str(MissingTeamName)
    /\ call.po = "ok"
    /\ call.ret.kind = "fail"
    /\ users = call.users_before

\* ------------------------------------------------ direct calls: list_users
\* SpecPages runs list_users once, one iteration of its loop per step, with
\* a page size and the page whose request fails, on user collections of
\* zero to MaxUsers records, on the two collections at the end of the page
\* range of line 18, and against a backend that answers every page number
\* with a full page.
PagedUser(n) == [user_email |-> <<"u">>, user_id |-> n]

PagedUsers(n) == [i \in 1..n |-> PagedUser(i)]

UserCollections ==
    {PagedUsers(n) : n \in 0..MaxUsers}
        \cup {PagedUsers(RangeStop - 1), PagedUsers(RangeStop)}

\* No request fails, or the request for one of the first pages does.
PageFaults ==
    {[page |-> 0, how |-> "ok"]} \cup
    {[page |-> k, how |-> o] : k \in 1..(MaxUsers + 1), o \in Outcomes \ {"ok"}}

InitPages ==
    /\ teams = <<>>
    /\ teamsShape = "list"
    /\ users \in UserCollections
    /\ keys = <<>>
    /\ nextId = 10
    /\ now = 0
    /\ roster = <<>>
    /\ users_cache = load_users(roster)
    /\ inv = [p \in Procs |-> Idle]
    /\ clean = TRUE
    /\ call = [op |-> "none"]

\* How the backend answers /user/list: "paged" serves the pages of its user
\* collection, "endless" a full page whatever the page number (it is tried
\* where the gateway has no user collection to page).
Backends == {"paged", "endless"}

\* What the backend serves the request for page `page` from: its collection,
\* or for the endless backend a collection of which that page is a full one.
Served(backend, us, page, page_size) ==
    IF backend = "endless" THEN PagedUsers(page * page_size) ELSE us

\* A loop with no upper end.
RangeNeverExhausted(page) == FALSE

\* range(1, 1000, 1) has no value left for the next iteration.
RangeExhausted(page) == page >= RangeStop

\* list_users is called: line 17.
CallListUsersPaged ==
    /\ call.op = "none"
    /\ \E page_size \in 1..MaxPageSize, uo \in PageFaults, backend \in Backends :
         /\ backend = "endless" => users = <<>>
         /\ call' = [op |-> "list_users", pc |-> "loop",
                     page_size |-> page_size,
                     uo |-> uo, backend |-> backend, page |-> 1,
                     all_users |-> <<>>, requests |-> <<>>, ret |-> None]
    /\ UNCHANGED <<gateway, now, roster, users_cache, inv, clean>>

\* One iteration of the loop of lines 18-47, or the return of line 49 when
\* the range is exhausted.
ListUsersPage ==
    /\ call.op = "list_users"
    /\ call.pc = "loop"
    /\ IF RangeExhausted(call.page)
       THEN call' = [call EXCEPT !.pc = "returned",
                                 !.ret = [kind |-> "list", items |-> call.all_users]]
       ELSE LET r == list_users_page(Served(call.backend, users, call.page,
                                            call.page_size),
                                     call.page_size, call.uo, call.page,
                                     call.all_users)
            IN call' = [call EXCEPT
                 !.requests = Append(@, call.page),
                 !.all_users = r.all_users,
                 !.page = IF r.exit = "continue" THEN @ + 1 ELSE @,
                 !.pc = IF r.exit = "continue" THEN "loop" ELSE "returned",
                 !.ret = IF r.exit = "return" THEN r.ret
                         ELSE IF r.exit = "break"
                         THEN [kind |-> "list", items |-> r.all_users]
                         ELSE None]
    /\ UNCHANGED <<gateway, now, roster, users_cache, inv, clean>>

NextPages ==
    \/ CallListUsersPaged
    \/ ListUsersPage

SpecPages == InitPages /\ [][NextPages]_vars

\* The call runs on: list_users makes no await and no other code stops it.
SpecPagesFair == SpecPages /\ WF_vars(ListUsersPage)

ListUsersReturned == call.op = "list_users" /\ call.pc = "returned"

\* The loop run step by step returns what the operator list_users computes.
ListUsersAgree ==
    (ListUsersReturned /\ call.backend = "paged" /\ Len(users) <= MaxUsers)
        => call.ret = list_users(users, call.page_size, call.uo)

\* The first page the backend serves with fewer records than the page size;
\* the endless backend serves none within the range of the loop.
ShortPage ==
    IF call.backend = "endless" THEN RangeStop
    ELSE (Len(users) \div call.page_size) + 1

\* The request for page call.uo.page failed: the loop got that far.
PageFailed ==
    /\ ListUsersReturned
    /\ call.uo.page > 0
    /\ call.uo.page <= ShortPage
    /\ call.uo.page < RangeStop

\* C11: when the request for page k fails the result is the failure
\* descriptor of that request, with none of the records of the pages before
\* k, and page k is the last page requested.
C11_PageFailureAborts ==
    PageFailed =>
        /\ call.ret = FailureDescriptor(call.uo.how)
        /\ call.requests = [i \in 1..call.uo.page |-> i]

\* C11: the second page (or a later one) failed after full pages.
C11_LaterPageFailedWitness ==
    /\ PageFailed
    /\ call.uo.page >= 2
    /\ call.all_users # <<>>
    /\ call.ret.kind = "fail"
    /\ Len(call.requests) = call.uo.page

NoPageFailed == ListUsersReturned /\ call.backend = "paged" /\ ~PageFailed

\* C12 as stated: when no page request fails the result is the whole
\* collection in page order and the first short page is the last one
\* requested.
C12_AllPagesConcatenated ==
    NoPageFailed =>
        /\ call.ret = [kind |-> "list", items |-> users]
        /\ call.requests = [i \in 1..ShortPage |-> i]

\* C12: when no page request fails and the first short page of the
\* collection is among the pages 1..999 of the loop, the result is the
\* whole collection in page order and the first short page is the last one
\* requested.
C12_AllPagesWithinRange ==
    (NoPageFailed /\ ShortPage < RangeStop) =>
        /\ call.ret = [kind |-> "list", items |-> users]
        /\ call.requests = [i \in 1..ShortPage |-> i]

\* C12: a collection of several full pages and a short one, all returned.
C12_SeveralPagesWitness ==
    /\ NoPageFailed
    /\ ShortPage >= 3
    /\ ShortPage < RangeStop
    /\ Len(users) % call.page_size # 0
    /\ call.ret.kind = "list"
    /\ Len(call.ret.items) = Len(users)

\* ----------------------------------------------------- direct calls: teams
\* SpecTeams calls the team operations on team collections of up to
\* MaxTeams teams whose aliases are spellings of the default team's name,
\* another name, or no alias; the n-th team has the n-th id.
TeamAliases ==
    {DefaultTeam.team_alias,
     <<" ","S","T","U","D","E","N","T","S","n","s","t","u">>,
     OtherTeam.team_alias,
     <<>>}

TeamIds == <<"1", "2", "3", "4", "5">>

TeamLists ==
    UNION {{[i \in 1..n |-> [team_alias |-> f[i], team_id |-> <<"t", TeamIds[i]>>]] :
              f \in [1..n -> TeamAliases]} : n \in 0..MaxTeams}

InitTeams ==
    /\ teams \in TeamLists
    /\ teamsShape \in TeamShapes
    /\ users = <<>>
    /\ keys = <<>>
    /\ nextId = 10
    /\ now = 0
    /\ roster = <<>>
    /\ users_cache = load_users(roster)
    /\ inv = [p \in Procs |-> Idle]
    /\ clean = TRUE
    /\ call = [op |-> "none"]

NextTeams ==
    \/ CallListTeams
    \/ CallGetTeamIdByName
    \/ CallTeamExists

SpecTeams == InitTeams /\ [][NextTeams]_vars

\* C13: a call of get_team_id_by_name or of team_exists by name returns what
\* it returns when the same team collection comes as a bare list.
C13_SameAnswerForEveryShape ==
    /\ call.op = "get_team_id_by_name"
          => call.ret = get_team_id_by_name(teams, "list", call.o, call.team_name)
    /\ (call.op = "team_exists" /\ call.team_id = None)
          => call.ret = team_exists(teams, "list", call.po, call.o, None,
                                    call.team_name)

\* Spellings of one name: they differ only in case and surrounding spaces.
SameName(a, b) ==
    \/ a = b
    \/ {a, b} \subseteq {DEFAULT_TEAM_NAME, DefaultTeamNameVariant,
                         DefaultTeam.team_alias,
                         <<" ","S","T","U","D","E","N","T","S","n","s","t","u">>}

\* The teams that have an alias, and whose alias is a spelling of name.
TeamsNamed(name) ==
    {i \in 1..Len(teams) : teams[i].team_alias # <<>>
                             /\ SameName(teams[i].team_alias, name)}

\* get_team_id_by_name was called and the team listing was answered.
Resolved ==
    /\ call.op = "get_team_id_by_name"
    /\ call.o = "ok"

\* The call returned the id of the first team in list order whose alias is a
\* spelling of the name, None when there is none, and every spelling of the
\* name gives the same.
FirstMatchingAlias ==
    /\ IF TeamsNamed(call.team_name) = {}
       THEN call.ret = None
       ELSE \E i \in TeamsNamed(call.team_name) :
               /\ \A j \in TeamsNamed(call.team_name) : i <= j
               /\ call.ret = Str(teams[i].team_id)
    /\ \A other \in TeamNames :
          SameName(other, call.team_name)
              => get_team_id_by_name(teams, teamsShape, "ok", other) = call.ret

\* C14: get_team_id_by_name returns the id of the first team in list order
\* whose alias is a spelling of the name, None when there is none, and the
\* same for every spelling of the name.
C14_FirstMatchingAliasWins == Resolved => FirstMatchingAlias

\* C14, for a team list that came bare or under 'teams'.
C14_FirstMatchingAliasWinsUnwrapped ==
    (Resolved /\ teamsShape # "data") => FirstMatchingAlias

\* C14: two teams carry spellings of the name, the first of them is not the
\* first team of the list, and the name is asked in a third spelling.
C14_AmbiguousNameWitness ==
    /\ Resolved
    /\ Cardinality(TeamsNamed(call.team_name)) >= 2
    /\ 1 \notin TeamsNamed(call.team_name)
    /\ \A i \in TeamsNamed(call.team_name) : teams[i].team_alias # call.team_name
    /\ call.ret.kind = "value"

\* team_exists was called with neither an id nor a name (None or '').
NeitherIdNorName ==
    /\ call.op = "team_exists"
    /\ call.team_id \in {None, Str(<<>>)}
    /\ call.team_name \in {None, Str(<<>>)}

\* C15: team_exists with neither id nor name raises ValueError and sends no
\* request.
C15_NeitherArgumentFailsFast ==
    NeitherIdNorName => (call.ret = Raise("ValueError") /\ call.requests = <<>>)

\* C15: the call without arguments, on a gateway that has teams and would
\* have answered.
C15_NoArgumentWitness ==
    /\ NeitherIdNorName
    /\ call.team_id = None
    /\ call.team_name = None
    /\ teams # <<>>
    /\ call.po = "ok"
    /\ call.o = "ok"
    /\ call.ret.kind = "raise"

\* The probe by id of team_exists was sent and answered 200: the gateway has
\* a team with that id.
ProbeSucceeded ==
    /\ call.op = "team_exists"
    /\ call.team_id \notin {None, Str(<<>>)}
    /\ call.po = "ok"
    /\ \E i \in 1..Len(teams) : teams[i].team_id = call.team_id.val

\* The team listing was answered and has a team whose alias is a spelling of
\* the name given to team_exists.
ScanFound ==
    /\ call.op = "team_exists"
    /\ call.team_name \notin {None, Str(<<>>)}
    /\ call.o = "ok"
    /\ TeamsNamed(call.team_name.val) # {}

\* The requests of a team_exists call with an argument: the probe alone when
\* it succeeds, the probe and then the listing when it fails and a name was
\* given, the listing alone when only a name was given.
ProbeFirst ==
    call.requests =
        (IF call.team_id \in {None, Str(<<>>)} THEN <<>> ELSE <<"/team/info">>)
        \o (IF ~ProbeSucceeded /\ call.team_name \notin {None, Str(<<>>)}
            THEN <<"/team/list">> ELSE <<>>)

\* C21: team_exists with an id or a name probes the id first, lists the teams
\* only when the probe did not succeed and a name was given, and returns the
\* boolean that is true iff the probe succeeded or the scan found the name.
C21_ProbeThenNameScan ==
    (call.op = "team_exists" /\ ~NeitherIdNorName)
        => /\ ProbeFirst
           /\ call.ret = Bool(ProbeSucceeded \/ ScanFound)

\* C21, for a team listing answered as a bare list or not answered at all.
C21_ProbeThenNameScanOnBareList ==
    (call.op = "team_exists" /\ ~NeitherIdNorName
        /\ (teamsShape = "list" \/ call.o # "ok"))
        => /\ ProbeFirst
           /\ call.ret = Bool(ProbeSucceeded \/ ScanFound)

\* ---------------------------------------------------- direct calls: roster
\* SpecRoster calls the roster's two queries while the CSV file changes.
\* Besides the files of RosterFiles, a file with a row whose username has
\* spaces around it, a row with no email, a row whose username has no "@",
\* and two rows for one username.
RosterContents ==
    RosterFiles \cup
    { <<Row(<<" ","@","b"," ">>, <<"b","@","x">>), Row(<<"@","a">>, <<>>),
        Row(<<"d">>, <<"d","@","x">>),
        Row(<<"@","c">>, <<"c","@","x">>), Row(<<"@","c">>, <<"C","@","y"," ">>)>> }

RosterQueries ==
    {<<"@","a">>, <<"a">>, <<"@","b">>, <<"@","c">>, <<"@","d">>, <<"d">>}

InitRoster ==
    /\ teams = <<>>
    /\ teamsShape = "list"
    /\ users = <<>>
    /\ keys = <<>>
    /\ nextId = 10
    /\ now = 0
    /\ roster \in RosterContents
    /\ users_cache = load_users(roster)
    /\ inv = [p \in Procs |-> Idle]
    /\ clean = TRUE
    /\ call = [op |-> "none"]

\* The CSV file is rewritten (by its administrator, outside the program).
RosterChange ==
    /\ \E file \in RosterContents \ {roster} : roster' = file
    /\ UNCHANGED <<gateway, now, users_cache, inv, clean, call>>

CallIsAuthorized ==
    /\ \E telegram_username \in RosterQueries :
         LET r == csv_is_authorized_call(users_cache, roster, telegram_username) IN
         /\ call' = [op |-> "is_authorized", telegram_username |-> telegram_username,
                     file |-> roster, cache_before |-> users_cache, ret |-> r.ret]
         /\ users_cache' = r.users_cache
    /\ UNCHANGED <<gateway, now, roster, inv, clean>>

CallGetEmail ==
    /\ \E telegram_username \in RosterQueries :
         LET r == csv_get_email_call(users_cache, roster, telegram_username) IN
         /\ call' = [op |-> "get_email", telegram_username |-> telegram_username,
                     file |-> roster, cache_before |-> users_cache, ret |-> r.ret]
         /\ users_cache' = r.users_cache
    /\ UNCHANGED <<gateway, now, roster, inv, clean>>

NextRoster ==
    \/ RosterChange
    \/ CallIsAuthorized
    \/ CallGetEmail

SpecRoster == InitRoster /\ [][NextRoster]_vars

InitGuard ==
    /\ teams = <<OtherTeam, DefaultTeam>>
    /\ teamsShape = "list"
    /\ users = <<>>
    /\ keys = <<>>
    /\ nextId = 10
    /\ now = 0
    /\ roster \in RosterFiles
    /\ users_cache = load_users(roster)
    /\ inv = [p \in Procs |-> Idle]
    /\ clean = TRUE
    /\ call = [op |-> "none"]

\* An update arrives when every earlier invocation has returned.
StartAlone(p) ==
    /\ \A q \in Procs : inv[q].pc \in {"idle", "returned"}
    /\ Start(p)

\* The file is rewritten before an update arrives or between the guard's
\* read and the handler's read (nothing reads it at other times).
RosterChangeBeforeRead ==
    /\ \A q \in Procs : inv[q].pc \in {"idle", "returned", "handler"}
    /\ RosterChange

NextGuard ==
    \/ \E p \in Procs : StartAlone(p)
    \/ \E p \in Procs : Handler(p)
    \/ \E p \in Procs : CreateUser(p)
    \/ \E p \in Procs : ActiveTokens(p)
    \/ \E p \in Procs : CreateToken(p)
    \/ \E p \in Procs : Return(p)
    \/ RosterChangeBeforeRead

SpecGuard == InitGuard /\ [][NextGuard]_vars

\* C17: the gateway holds at most one user record per normalized email, and
\* no invocation posted /user/new while a record with its normalized email
\* existed.
C17_OneUserPerEmail ==
    /\ \A i, j \in 1..Len(users) :
          Normalize(users[i].user_email) = Normalize(users[j].user_email) => i = j
    /\ \A p \in Procs : ~inv[p].dup_create

\* C19: an invocation that has sent a request to the gateway, created a user
\* or generated a key has a sender with a username whose identity the file
\* mapped when the guard read it; a rejected invocation has sent nothing.
C19_OnlyGuardedInvocationsReachGateway ==
    \A p \in Procs :
        /\ (\/ inv[p].requested
            \/ inv[p].user_creation # "none"
            \/ inv[p].generated # 0)
              => (inv[p].username # <<>> /\ inv[p].in_roster)
        /\ (inv[p].pc = "done" /\ (inv[p].username = <<>> \/ ~inv[p].in_roster))
              => (/\ inv[p].result = "rejected"
                  /\ ~inv[p].requested
                  /\ inv[p].user_creation = "none"
                  /\ inv[p].generated = 0)

\* C19: a sender was turned away whose identity the file does not map (any
\* more), after an earlier invocation had a key generated.
C19_RejectedWitness ==
    \E p \in Procs :
        /\ inv[p].pc = "done"
        /\ inv[p].username = <<"a">>
        /\ ~inv[p].in_roster
        /\ inv[p].result = "rejected"
        /\ ~inv[p].requested
        /\ TokensOf(EmailA) # {}

\* C20: the email an invocation that passed the guard works with is the one
\* the file maps the sender's identity to; it is never the fallback address.
C20_EmailIsTheRostersEmail ==
    \A p \in Procs :
        inv[p].email # <<>>
            => (/\ inv[p].mapped
                /\ inv[p].email # inv[p].username \o FallbackDomain)

\* ------------------------------------------- the request body of create_user
\* The body of the POST /user/new of the create_user call.
PostedBody ==
    create_user_request(teams, teamsShape, call.o1, call.o2, call.email,
                        call.team_name).body

\* C18: a create_user call for a team name that posted /user/new posted the
\* id of a team whose alias is a spelling of that name.
C18_PostedRequestCarriesTeamId ==
    (call.op = "create_user" /\ ~Falsy(call.team_name) /\ call.posted)
        => \E i \in TeamsNamed(call.team_name.val) :
               PostedBody.teams = <<Str(teams[i].team_id)>>

\* ------------------------------------------------ termination of list_users
\* C22: list_users never requests more than 999 pages, and every call
\* returns, whatever the backend answers.
C22_ListUsersTerminates ==
    /\ [](call.op = "list_users" => Len(call.requests) < RangeStop)
    /\ (call.op = "list_users") ~> ListUsersReturned

\* C22: against the backend that always answers a full page, the call has
\* returned after 999 requests with the 999 pages it was served.
C22_EndlessBackendWitness ==
    /\ ListUsersReturned
    /\ call.backend = "endless"
    /\ call.uo.page = 0
    /\ Len(call.requests) = RangeStop - 1
    /\ call.ret.kind = "list"
    /\ Len(call.ret.items) = (RangeStop - 1) * call.page_size

====
